---- MODULE Spec2Model ----
(***************************************************************************)
(* Model of simplified_main_app.py: a Streamlit script that loads one      *)
(* SQLite table through DatabaseManager, caches it with st.cache_data,     *)
(* filters it by year range, industry and company name, and renders a      *)
(* table, two top-20 aggregations and a CSV export.  The script is run     *)
(* top to bottom once per user interaction (a "render pass").              *)
(***************************************************************************)
EXTENDS Integers, Sequences, FiniteSets, TLC

\* ---------------------------------------------------------------------
\* Bounds of the model
\* ---------------------------------------------------------------------
MaxRows == 2        \* rows of the stored table in the general specification
MaxConnects == 2    \* render passes restart only while fewer connects happened
WideExtra == 1      \* industries beyond head(20) in the wide-table specification

\* head(20) of both aggregations
TopN == 20

\* ---------------------------------------------------------------------
\* Values
\* ---------------------------------------------------------------------
\* Python None / SQL NULL / pandas NaN, and a present value
Null == <<>>
Some(x) == <<x>>
IsNull(o) == Len(o) = 0
Val(o) == o[1]

\* A value as SQLite stores it in the year or index column: an integer/real
\* number, or a text that is no number.
Num(n) == [k |-> "num", n |-> n]
Junk == [k |-> "text", n |-> 0]

\* pd.to_numeric(x, errors='coerce') on one stored value
to_numeric(raw) == IF raw.k = "num" THEN Some(raw.n) ELSE Null

\* The companies of the stored table: stock code, name, industry
Companies ==
    { [stock_code |-> 1, company_name |-> Some(<<"A", "b">>), industry_name |-> Some(1)],
      [stock_code |-> 2, company_name |-> Some(<<"B", ",", ".">>), industry_name |-> Some(2)],
      [stock_code |-> 3, company_name |-> Null, industry_name |-> Null] }

RawYears == {Num(2020), Num(2021), Junk}
RawIndexes == {Num(1), Num(3), Junk}

\* One stored row (the five selected columns)
StoredRows ==
    { [stock_code |-> c.stock_code, company_name |-> c.company_name, year |-> y,
       industry_name |-> c.industry_name, transformation_index |-> x] :
         c \in Companies, y \in RawYears, x \in RawIndexes }

\* ORDER BY stock_code, year: SQLite sorts numbers before text
YearKey(raw) == IF raw.k = "num" THEN raw.n ELSE 100000
RowLeq(r, s) ==
    \/ r.stock_code < s.stock_code
    \/ r.stock_code = s.stock_code /\ YearKey(r.year) <= YearKey(s.year)
IsOrdered(t) == \A i \in 1..(Len(t) - 1) : RowLeq(t[i], t[i + 1])

\* query results of at most MaxRows rows, as the SELECT returns them
SmallTables ==
    UNION { { t \in [1..n -> StoredRows] : IsOrdered(t) } : n \in 0..MaxRows }

\* Tables with more than head(20) industries, two rows per industry, for the
\* aggregations' truncation: row j belongs to industry (j + 1) \div 2
WideRow(j, a, b) ==
    [stock_code |-> j, company_name |-> Null,
     year |-> Num(2020 + (j % 2)),
     industry_name |-> Some((j + 1) \div 2),
     transformation_index |-> IF (a * j + b) % 5 = 0 THEN Junk ELSE Num((a * j + b) % 5)]
WideTables ==
    { [j \in 1..(2 * n) |-> WideRow(j, a, b)] :
        n \in (TopN - 1)..(TopN + WideExtra), a \in 1..5, b \in 0..4 }

\* The database file as the process finds it
Databases(tables) ==
    { [status |-> "unopenable", rows |-> <<>>], [status |-> "noschema", rows |-> <<>>] }
      \cup { [status |-> "ok", rows |-> t] : t \in tables }

\* ---------------------------------------------------------------------
\* State
\* ---------------------------------------------------------------------
VARIABLES
    db,             \* the database file (never written by the program)
    conn,           \* DatabaseManager.conn: Null or Some("open")
    nConnects,      \* sqlite3.connect calls that succeeded so far
    cache,          \* st.cache_data entry of load_data: Null or Some(value)
    pc,             \* position of the script in the current render pass
    ret,            \* value get_all_data is about to return
    df,             \* module-level df: Null (None) or Some(rows)
    ui,             \* widget values kept by the session between passes
    year_range,     \* value of the slider in this pass
    filtered_df,    \* rows of filtered_df
    out,            \* elements shown so far in this pass
    industry_dist,  \* tab1 aggregation (after head(20))
    industry_avg,   \* tab2 aggregation (after head(20))
    csv,            \* text handed to st.download_button
    fault           \* uncaught exception that ended the pass ("none" if none)

vars == <<db, conn, nConnects, cache, pc, ret, df, ui, year_range, filtered_df,
          out, industry_dist, industry_avg, csv, fault>>

passVars == <<ret, year_range, filtered_df, industry_dist, industry_avg, csv, fault>>

DefaultUi == [year |-> Null, inds |-> {}, search |-> <<>>]

InitWith(tables) ==
    /\ db \in Databases(tables)
    /\ conn = Null
    /\ nConnects = 0
    /\ cache = Null
    /\ pc = "load_data"
    /\ ret = Null
    /\ df = Null
    /\ ui = DefaultUi
    /\ year_range = <<0, 0>>
    /\ filtered_df = <<>>
    /\ out = {}
    /\ industry_dist = <<>>
    /\ industry_avg = <<>>
    /\ csv = <<>>
    /\ fault = "none"

Init == InitWith(SmallTables)

\* ---------------------------------------------------------------------
\* DatabaseManager and load_data
\* ---------------------------------------------------------------------
\* st.cache_data lookup for the single key of load_data
CacheLookupAlwaysMiss(c) == Null
CacheLookup(c) == c

\* load_data() with a cache entry: the stored value is returned
LoadDataHit ==
    /\ pc = "load_data"
    /\ ~IsNull(CacheLookup(cache))
    /\ df' = Val(CacheLookup(cache))
    /\ pc' = "check"
    /\ UNCHANGED <<db, conn, nConnects, cache, ui, out>>
    /\ UNCHANGED passVars

\* load_data() without a cache entry: DatabaseManager() and get_all_data()
LoadDataMiss ==
    /\ pc = "load_data"
    /\ IsNull(CacheLookup(cache))
    /\ conn' = Null
    /\ pc' = "connect"
    /\ UNCHANGED <<db, nConnects, cache, df, ui, out>>
    /\ UNCHANGED passVars

\* connect(): sqlite3.connect succeeded
ConnectOk ==
    /\ pc = "connect"
    /\ db.status # "unopenable"
    /\ conn' = Some("open")
    /\ nConnects' = nConnects + 1
    /\ pc' = "query"
    /\ UNCHANGED <<db, cache, df, ui, out>>
    /\ UNCHANGED passVars

\* connect(): sqlite3.Error; get_all_data returns None before its try block
ConnectFail ==
    /\ pc = "connect"
    /\ db.status = "unopenable"
    /\ out' = out \cup {"error_connect"}
    /\ ret' = Null
    /\ pc' = "coerce"
    /\ UNCHANGED <<db, conn, nConnects, cache, df, ui>>
    /\ UNCHANGED <<year_range, filtered_df, industry_dist, industry_avg, csv, fault>>

\* pd.read_sql_query succeeded: return df is pending, finally runs first
QueryOk ==
    /\ pc = "query"
    /\ db.status = "ok"
    /\ ret' = Some(db.rows)
    /\ pc' = "finally"
    /\ UNCHANGED <<db, conn, nConnects, cache, df, ui, out>>
    /\ UNCHANGED <<year_range, filtered_df, industry_dist, industry_avg, csv, fault>>

\* pd.read_sql_query raised: except reports it, return None is pending
QueryFail ==
    /\ pc = "query"
    /\ db.status = "noschema"
    /\ out' = out \cup {"error_query"}
    /\ ret' = Null
    /\ pc' = "finally"
    /\ UNCHANGED <<db, conn, nConnects, cache, df, ui>>
    /\ UNCHANGED <<year_range, filtered_df, industry_dist, industry_avg, csv, fault>>

\* disconnect(): close and forget the connection if there is one
disconnectLeak(c) == c
disconnect(c) == IF ~IsNull(c) THEN Null ELSE c

\* finally: self.disconnect(), then get_all_data returns
Finally ==
    /\ pc = "finally"
    /\ conn' = disconnect(conn)
    /\ pc' = "coerce"
    /\ UNCHANGED <<db, nConnects, cache, df, ui, out>>
    /\ UNCHANGED passVars

\* the two pd.to_numeric(..., errors='coerce') assignments on one row
CoerceRow(r) ==
    [stock_code |-> r.stock_code, company_name |-> r.company_name,
     year |-> to_numeric(r.year), industry_name |-> r.industry_name,
     transformation_index |-> to_numeric(r.transformation_index)]

\* load_data after get_all_data returned: coercion, and the cache keeps the result
Coerce ==
    /\ pc = "coerce"
    /\ LET res == IF IsNull(ret) THEN Null
                  ELSE Some([i \in 1..Len(Val(ret)) |-> CoerceRow(Val(ret)[i])])
       IN /\ df' = res
          /\ cache' = Some(res)
    /\ pc' = "check"
    /\ UNCHANGED <<db, conn, nConnects, ui, out>>
    /\ UNCHANGED passVars

\* df is None or df.empty
NoDataOnlyNone(d) == IsNull(d)
NoData(d) == IF IsNull(d) THEN TRUE ELSE Len(Val(d)) = 0

\* ---------------------------------------------------------------------
\* The script after load_data
\* ---------------------------------------------------------------------
\* if df is None or df.empty: st.error(...); st.stop()
HaltOnNoData ==
    /\ pc = "check"
    /\ NoData(df)
    /\ out' = out \cup {"error_load"}
    /\ pc' = "stopped"
    /\ UNCHANGED <<db, conn, nConnects, cache, df, ui>>
    /\ UNCHANGED passVars

Proceed ==
    /\ pc = "check"
    /\ ~NoData(df)
    /\ pc' = "sidebar"
    /\ UNCHANGED <<db, conn, nConnects, cache, df, ui, out>>
    /\ UNCHANGED passVars

\* Series.min() / Series.max() skip NaN; of no value at all they are NaN
PresentYears(rows) == { Val(rows[i].year) : i \in { j \in 1..Len(rows) : ~IsNull(rows[j].year) } }
SetMin(S) == CHOOSE x \in S : \A y \in S : x <= y
SetMax(S) == CHOOSE x \in S : \A y \in S : y <= x
year_min(rows) == IF PresentYears(rows) = {} THEN Null ELSE Some(SetMin(PresentYears(rows)))
year_max(rows) == IF PresentYears(rows) = {} THEN Null ELSE Some(SetMax(PresentYears(rows)))

\* sorted(df['industry_name'].dropna().unique().tolist()), as a set
all_industries(rows) ==
    { Val(rows[i].industry_name) : i \in { j \in 1..Len(rows) : ~IsNull(rows[j].industry_name) } }

\* int(df['year'].min()) raises ValueError on NaN: the pass ends before any widget
SidebarFault ==
    /\ pc = "sidebar"
    /\ IsNull(year_min(Val(df)))
    /\ out' = out \cup {"sidebar_header"}
    /\ fault' = "year_bounds"
    /\ pc' = "fault"
    /\ UNCHANGED <<db, conn, nConnects, cache, df, ui>>
    /\ UNCHANGED <<ret, year_range, filtered_df, industry_dist, industry_avg, csv>>

\* the three sidebar widgets; the slider's default is (min, max)
Sidebar ==
    /\ pc = "sidebar"
    /\ ~IsNull(year_min(Val(df)))
    /\ out' = out \cup {"sidebar_header", "slider", "multiselect", "text_input"}
    /\ year_range' = IF IsNull(ui.year)
                     THEN <<Val(year_min(Val(df))), Val(year_max(Val(df)))>>
                     ELSE Val(ui.year)
    /\ pc' = "filter"
    /\ UNCHANGED <<db, conn, nConnects, cache, df, ui>>
    /\ UNCHANGED <<ret, filtered_df, industry_dist, industry_avg, csv, fault>>

\* (year >= lo) & (year <= hi): a comparison with NaN is False
YearMaskKeepsMissing(r, lo, hi) ==
    IsNull(r.year) \/ (Val(r.year) >= lo /\ Val(r.year) <= hi)
YearMask(r, lo, hi) ==
    /\ ~IsNull(r.year)
    /\ Val(r.year) >= lo
    /\ Val(r.year) <= hi

\* Series.isin(selected_industries): NaN is in no list of names
IndustryIsin(r, sel) == ~IsNull(r.industry_name) /\ Val(r.industry_name) \in sel

\* if selected_industries: filtered_df = filtered_df[...isin(...)]
IndustryStepAlways(rows, sel) == SelectSeq(rows, LAMBDA r : IndustryIsin(r, sel))
IndustryStep(rows, sel) ==
    IF sel # {} THEN SelectSeq(rows, LAMBDA r : IndustryIsin(r, sel)) ELSE rows

\* case=False: both sides compared without case
Lower(c) == CASE c = "A" -> "a" [] c = "B" -> "b" [] OTHER -> c

\* re.compile(pat) raises re.error on a pattern that is no regular expression
\* (here: a parenthesis that is never closed)
ReValid(pat) == \A j \in 1..Len(pat) : pat[j] # "("

\* The pattern as a regular expression matched at position i of s: "." stands
\* for any character, every other character for itself
ReMatchAt(pat, s, i) ==
    \A j \in 1..Len(pat) :
        /\ i + j - 1 <= Len(s)
        /\ (pat[j] = "." \/ Lower(pat[j]) = Lower(s[i + j - 1]))
ReSearch(pat, s) == \E i \in 1..(Len(s) + 1) : ReMatchAt(pat, s, i)

\* Series.str.contains(pat, case=False, na=False), regex=True by default
str_contains(name, pat) == IF IsNull(name) THEN FALSE ELSE ReSearch(pat, Val(name))

\* if company_search: filtered_df = filtered_df[...str.contains(...)]
NameStep(rows, pat) ==
    IF Len(pat) > 0 THEN SelectSeq(rows, LAMBDA r : str_contains(r.company_name, pat))
    ELSE rows

\* the filter block
FilterRows(rows, yr, sel, pat) ==
    NameStep(IndustryStep(SelectSeq(rows, LAMBDA r : YearMask(r, yr[1], yr[2])), sel), pat)

\* the filter block when str.contains raises re.error
FilterFault ==
    /\ pc = "filter"
    /\ Len(ui.search) > 0
    /\ ~ReValid(ui.search)
    /\ fault' = "regex"
    /\ pc' = "fault"
    /\ UNCHANGED <<db, conn, nConnects, cache, df, ui, out>>
    /\ UNCHANGED <<ret, year_range, filtered_df, industry_dist, industry_avg, csv>>

Filter ==
    /\ pc = "filter"
    /\ (Len(ui.search) > 0 => ReValid(ui.search))
    /\ filtered_df' = FilterRows(Val(df), year_range, ui.inds, ui.search)
    /\ pc' = "display"
    /\ UNCHANGED <<db, conn, nConnects, cache, df, ui, out>>
    /\ UNCHANGED <<ret, year_range, industry_dist, industry_avg, csv, fault>>

\* not filtered_df.empty
not_emptyAlways(rows) == TRUE
not_empty(rows) == Len(rows) > 0

\* st.header, st.info, then st.dataframe or st.warning
Display ==
    /\ pc = "display"
    /\ out' = out \cup {"info"} \cup
                (IF not_empty(filtered_df) THEN {"dataframe"} ELSE {"warning"})
    /\ pc' = "tab1"
    /\ UNCHANGED <<db, conn, nConnects, cache, df, ui>>
    /\ UNCHANGED passVars

\* ---------------------------------------------------------------------
\* Aggregations.  An entry is [industry_name, num, den]: the value num/den,
\* NaN when den = 0 (the mean of no value).
\* ---------------------------------------------------------------------
\* groupby('industry_name') drops the rows without a key and sorts the keys
RECURSIVE KeysAscending(_)
KeysAscending(S) ==
    IF S = {} THEN <<>> ELSE <<SetMin(S)>> \o KeysAscending(S \ {SetMin(S)})

GroupRows(rows, k) == SelectSeq(rows, LAMBDA r : IndustryIsin(r, {k}))

\* ['stock_code'].nunique() of one group
nunique(rows, k) ==
    Cardinality({ GroupRows(rows, k)[i].stock_code : i \in 1..Len(GroupRows(rows, k)) })

RECURSIVE SumIndex(_)
SumIndex(rows) ==
    IF Len(rows) = 0 THEN 0
    ELSE (IF IsNull(Head(rows).transformation_index) THEN 0
          ELSE Val(Head(rows).transformation_index)) + SumIndex(Tail(rows))

\* ['transformation_index'].mean() of one group: NaN values are skipped
meanCountsMissing(rows, k) ==
    [industry_name |-> k, num |-> SumIndex(GroupRows(rows, k)),
     den |-> Len(GroupRows(rows, k))]
mean(rows, k) ==
    [industry_name |-> k, num |-> SumIndex(GroupRows(rows, k)),
     den |-> Len(SelectSeq(GroupRows(rows, k),
                           LAMBDA r : ~IsNull(r.transformation_index)))]

\* a sorts strictly before b under ascending=False: larger first, NaN last
Before(a, b) == a.den > 0 /\ (b.den = 0 \/ a.num * b.den > b.num * a.den)

\* sort_values(ascending=False): the order of equal values is the sorting
\* algorithm's; TieOrders are the outcomes modelled
TieOrders == {"first", "last"}
Remove(s, m) == [i \in 1..(Len(s) - 1) |-> IF i < m THEN s[i] ELSE s[i + 1]]
RECURSIVE sort_values(_, _)
sort_values(s, tie) ==
    IF Len(s) = 0 THEN <<>>
    ELSE LET C == { i \in 1..Len(s) : \A j \in 1..Len(s) : ~Before(s[j], s[i]) }
             m == IF tie = "first" THEN SetMin(C) ELSE SetMax(C)
         IN <<s[m]>> \o sort_values(Remove(s, m), tie)

\* .head(n)
head(s, n) == IF Len(s) <= n THEN s ELSE SubSeq(s, 1, n)

\* tab1: distinct companies per industry, top 20
Tab1Skip ==
    /\ pc = "tab1"
    /\ ~not_empty(filtered_df)
    /\ pc' = "tab2"
    /\ UNCHANGED <<db, conn, nConnects, cache, df, ui, out>>
    /\ UNCHANGED passVars

Tab1 ==
    /\ pc = "tab1"
    /\ not_empty(filtered_df)
    /\ \E tie \in TieOrders :
         LET keys == KeysAscending(all_industries(filtered_df))
             g == [i \in 1..Len(keys) |->
                     [industry_name |-> keys[i], num |-> nunique(filtered_df, keys[i]),
                      den |-> 1]]
         IN industry_dist' = head(sort_values(g, tie), TopN)
    /\ out' = out \cup {"chart1"}
    /\ pc' = "tab2"
    /\ UNCHANGED <<db, conn, nConnects, cache, df, ui>>
    /\ UNCHANGED <<ret, year_range, filtered_df, industry_avg, csv, fault>>

\* tab2: mean index per industry, top 20
Tab2Skip ==
    /\ pc = "tab2"
    /\ ~not_empty(filtered_df)
    /\ pc' = "export"
    /\ UNCHANGED <<db, conn, nConnects, cache, df, ui, out>>
    /\ UNCHANGED passVars

Tab2 ==
    /\ pc = "tab2"
    /\ not_empty(filtered_df)
    /\ \E tie \in TieOrders :
         LET keys == KeysAscending(all_industries(filtered_df))
             g == [i \in 1..Len(keys) |-> mean(filtered_df, keys[i])]
         IN industry_avg' = head(sort_values(g, tie), TopN)
    /\ out' = out \cup {"chart2"}
    /\ pc' = "export"
    /\ UNCHANGED <<db, conn, nConnects, cache, df, ui>>
    /\ UNCHANGED <<ret, year_range, filtered_df, industry_dist, csv, fault>>

\* ---------------------------------------------------------------------
\* CSV export.  A text is a sequence of characters; a column label counts
\* as one character.
\* ---------------------------------------------------------------------
Columns == <<"stock_code", "company_name", "year", "industry_name", "transformation_index">>

Digit(d) == CASE d = 0 -> "0" [] d = 1 -> "1" [] d = 2 -> "2" [] d = 3 -> "3"
              [] d = 4 -> "4" [] d = 5 -> "5" [] d = 6 -> "6" [] d = 7 -> "7"
              [] d = 8 -> "8" [] d = 9 -> "9"
RECURSIVE Digits(_)
Digits(n) == IF n < 10 THEN <<Digit(n)>> ELSE Digits(n \div 10) \o <<Digit(n % 10)>>

\* a numeric cell: NaN is the empty text, a float64 prints with its fraction
FormatNumber(o, isFloat) ==
    IF IsNull(o) THEN <<>>
    ELSE Digits(Val(o)) \o (IF isFloat THEN <<".", "0">> ELSE <<>>)

\* the year column is int64 unless a value of the loaded table is NaN
YearIsFloat(rows) == \E i \in 1..Len(rows) : IsNull(rows[i].year)

\* csv.QUOTE_MINIMAL: a field with a delimiter, a quote or a line break is
\* quoted, the quotes inside it doubled
RECURSIVE DoubleQuotes(_)
DoubleQuotes(f) ==
    IF Len(f) = 0 THEN <<>>
    ELSE (IF Head(f) = "\"" THEN <<"\"", "\"">> ELSE <<Head(f)>>) \o DoubleQuotes(Tail(f))
NeedsQuote(f) == \E i \in 1..Len(f) : f[i] \in {",", "\"", "\n"}
CsvFieldUnquoted(f) == f
CsvField(f) == IF NeedsQuote(f) THEN <<"\"">> \o DoubleQuotes(f) \o <<"\"">> ELSE f

CsvLine(fields) ==
    CsvField(fields[1]) \o <<",">> \o CsvField(fields[2]) \o <<",">> \o
    CsvField(fields[3]) \o <<",">> \o CsvField(fields[4]) \o <<",">> \o
    CsvField(fields[5]) \o <<"\n">>

\* the cells of one row as texts
RowFields(r, yearFloat) ==
    << Digits(r.stock_code),
       IF IsNull(r.company_name) THEN <<>> ELSE Val(r.company_name),
       FormatNumber(r.year, yearFloat),
       IF IsNull(r.industry_name) THEN <<>> ELSE <<"I">> \o Digits(Val(r.industry_name)),
       FormatNumber(r.transformation_index, TRUE) >>

RECURSIVE CsvBody(_, _)
CsvBody(rows, yearFloat) ==
    IF Len(rows) = 0 THEN <<>>
    ELSE CsvLine(RowFields(Head(rows), yearFloat)) \o CsvBody(Tail(rows), yearFloat)

\* DataFrame.to_csv(index=False): the header line, then one line per row
to_csv(rows, yearFloat) ==
    CsvLine([i \in 1..Len(Columns) |-> <<Columns[i]>>]) \o CsvBody(rows, yearFloat)

\* if not filtered_df.empty: the export section; then the footer
ExportSkip ==
    /\ pc = "export"
    /\ ~not_empty(filtered_df)
    /\ out' = out \cup {"footer"}
    /\ pc' = "done"
    /\ UNCHANGED <<db, conn, nConnects, cache, df, ui>>
    /\ UNCHANGED passVars

Export ==
    /\ pc = "export"
    /\ not_empty(filtered_df)
    /\ csv' = to_csv(filtered_df, YearIsFloat(Val(df)))
    /\ out' = out \cup {"download", "footer"}
    /\ pc' = "done"
    /\ UNCHANGED <<db, conn, nConnects, cache, df, ui>>
    /\ UNCHANGED <<ret, year_range, filtered_df, industry_dist, industry_avg, fault>>

\* ---------------------------------------------------------------------
\* The user
\* ---------------------------------------------------------------------
\* texts typed into the search box
Queries == { <<>>, <<"a">>, <<"a", "B">>, <<".">>, <<"(">> }

\* values the range slider can take
SliderValues(rows) ==
    { p \in (Val(year_min(rows))..Val(year_max(rows))) \X
              (Val(year_min(rows))..Val(year_max(rows))) : p[1] <= p[2] }

\* values the session can hold after one interaction: a widget interaction
\* reruns the script at once, so one widget changes per pass, or none (a
\* reload); a pass that ended before the widgets leaves nothing to touch
UiChoices ==
    IF "slider" \notin out THEN {ui}
    ELSE {ui}
         \cup { [ui EXCEPT !.year = y] :
                  y \in {Null} \cup { Some(p) : p \in SliderValues(Val(df)) } }
         \cup { [ui EXCEPT !.inds = s] : s \in SUBSET all_industries(Val(df)) }
         \cup { [ui EXCEPT !.search = q] : q \in Queries }

\* a user interaction (or a reload) after the pass ended: the script runs again
Rerun ==
    /\ pc \in {"done", "stopped", "fault"}
    /\ nConnects < MaxConnects
    /\ ui' \in UiChoices
    /\ pc' = "load_data"
    /\ ret' = Null
    /\ df' = Null
    /\ year_range' = <<0, 0>>
    /\ filtered_df' = <<>>
    /\ out' = {}
    /\ industry_dist' = <<>>
    /\ industry_avg' = <<>>
    /\ csv' = <<>>
    /\ fault' = "none"
    /\ UNCHANGED <<db, conn, nConnects, cache>>

Load ==
    \/ LoadDataHit \/ LoadDataMiss \/ ConnectOk \/ ConnectFail
    \/ QueryOk \/ QueryFail \/ Finally \/ Coerce

Render ==
    \/ HaltOnNoData \/ Proceed \/ SidebarFault \/ Sidebar \/ FilterFault \/ Filter
    \/ Display \/ Tab1Skip \/ Tab1 \/ Tab2Skip \/ Tab2 \/ ExportSkip \/ Export

Next == Load \/ Render \/ Rerun

Spec == Init /\ [][Next]_vars

\* The wide-table specification: the first pass over a table of more than
\* head(20) industries, with the widgets untouched
InitWide == InitWith(WideTables) /\ db.status = "ok"

NextWide ==
    \/ LoadDataMiss \/ ConnectOk \/ QueryOk \/ Finally \/ Coerce \/ Proceed
    \/ Sidebar \/ Filter \/ Display \/ Tab1 \/ Tab2 \/ Export

SpecWide == InitWide /\ [][NextWide]_vars

\* ---------------------------------------------------------------------
\* Properties
\* ---------------------------------------------------------------------
\* the filter block of this pass has run
Filtered == pc \in {"display", "tab1", "tab2", "export", "done"}

\* the rows of a table at the positions idx, in the table's order
RowsAt(rows, idx) ==
    [k \in 1..Cardinality(idx) |->
        rows[CHOOSE i \in idx : Cardinality({ j \in idx : j <= i }) = k]]

InYears(r, yr) == Len(r.year) = 1 /\ yr[1] <= r.year[1] /\ r.year[1] <= yr[2]

\* C1: get_all_data never returns with the connection it opened still open:
\* outside connect/query/finally the manager holds no connection, on the
\* success path and on the exception path.
C1_ConnectionReleased ==
    pc \notin {"connect", "query", "finally"} => conn = Null

C1_Witness ==
    /\ pc = "coerce"
    /\ nConnects = 1
    /\ "error_query" \in out
    /\ conn = Null

\* C2: within one cache lifetime storage is opened at most once, and once
\* load_data has a cached result every later invocation returns that result
\* without connecting or querying.
C2_LoadQueriesOnce ==
    /\ [](nConnects <= 1)
    /\ [](pc \in {"connect", "query", "finally", "coerce"} => cache = Null)
    /\ [][(pc = "load_data" /\ cache # Null)
            => (pc' = "check" /\ df' = cache[1] /\ cache' = cache
                /\ conn' = conn /\ nConnects' = nConnects)]_vars

C2_Witness ==
    /\ pc = "check"
    /\ ui # DefaultUi
    /\ nConnects = 1
    /\ cache # Null
    /\ df = cache[1]
    /\ ~NoData(df)

\* C3: with no industry selected and an empty name query the filtered table
\* is exactly the loaded rows whose year is present and within [lo, hi], in
\* the loaded order; a row without a year is never in the filtered table.
C3_YearFilterExact ==
    Filtered =>
      /\ year_range[1] <= year_range[2]
      /\ \A i \in 1..Len(filtered_df) : Len(filtered_df[i].year) = 1
      /\ (ui.inds = {} /\ ui.search = <<>>) =>
            filtered_df =
              RowsAt(df[1], { i \in 1..Len(df[1]) : InYears(df[1][i], year_range) })

C3_Witness ==
    /\ Filtered
    /\ ui.inds = {} /\ ui.search = <<>>
    /\ year_range = <<2021, 2021>>
    /\ Len(df[1]) = 2
    /\ Len(filtered_df) = 1
    /\ df[1][1].year = <<2020>>

\* the name filter alone keeps the row
PassesName(r) == Len(NameStep(<<r>>, ui.search)) = 1

\* C4: an empty industry selection filters nothing beyond the year and name
\* filters; a non-empty one keeps exactly the rows passing those two filters
\* whose industry is present and selected.
C4_IndustryFilterExact ==
    Filtered =>
      filtered_df =
        RowsAt(df[1],
               { i \in 1..Len(df[1]) :
                   /\ InYears(df[1][i], year_range)
                   /\ PassesName(df[1][i])
                   /\ \/ ui.inds = {}
                      \/ /\ Len(df[1][i].industry_name) = 1
                         /\ df[1][i].industry_name[1] \in ui.inds })

C4_Witness ==
    /\ Filtered
    /\ ui.inds = {1}
    /\ Len(df[1]) = 2
    /\ Len(filtered_df) = 1
    /\ ui.search = <<>>
    /\ df[1][2].industry_name = Null
    /\ InYears(df[1][2], year_range)

\* q occurs in s as a literal substring, compared without case
LiteralContains(s, q) ==
    \E i \in 0..(Len(s) - Len(q)) : \A j \in 1..Len(q) : Lower(s[i + j]) = Lower(q[j])

\* C5: a non-empty name query keeps exactly the rows (of those passing the
\* year and industry filters) whose name is present and contains the query
\* as a literal substring, compared case-insensitively; the pass does not
\* fail on any query.
C5_NameFilterLiteral ==
    /\ fault # "regex"
    /\ Filtered =>
         filtered_df =
           RowsAt(df[1],
                  { i \in 1..Len(df[1]) :
                      /\ InYears(df[1][i], year_range)
                      /\ (ui.inds # {} => df[1][i].industry_name \in { <<k>> : k \in ui.inds })
                      /\ \/ ui.search = <<>>
                         \/ /\ Len(df[1][i].company_name) = 1
                            /\ LiteralContains(df[1][i].company_name[1], ui.search) })

\* the load of this process cannot give rows
LoadFails == db.status # "ok" \/ Len(db.rows) = 0

\* C6: when the accessor fails or returns no row, load_data gives None or an
\* empty table, and the pass shows the blocking error and stops before any
\* widget, filter step, aggregation or export.
C6_HaltOnLoadFailure ==
    LoadFails =>
      /\ pc \in {"load_data", "connect", "query", "finally", "coerce", "check", "stopped"}
      /\ out \subseteq {"error_connect", "error_query", "error_load"}
      /\ (pc \in {"check", "stopped"} =>
            IF db.status = "ok" THEN df = Some(<<>>) ELSE df = Null)
      /\ (pc = "stopped" => "error_load" \in out)
      /\ filtered_df = <<>> /\ industry_dist = <<>> /\ industry_avg = <<>> /\ csv = <<>>

C6_Witness ==
    /\ pc = "stopped"
    /\ db.status = "unopenable"
    /\ df = Null
    /\ "error_load" \in out

\* C7: a pass whose filtered table is empty shows the no-data notice and
\* computes no aggregation and draws no chart; a pass whose filtered table is
\* not empty shows the table and both aggregations and no notice.
C7_EmptyMeansNoAggregation ==
    /\ "warning" \in out => Len(filtered_df) = 0
    /\ out \cap {"dataframe", "chart1", "chart2"} # {} => Len(filtered_df) > 0
    /\ pc = "done" =>
         IF Len(filtered_df) = 0
         THEN /\ "warning" \in out
              /\ out \cap {"dataframe", "chart1", "chart2"} = {}
              /\ industry_dist = <<>> /\ industry_avg = <<>>
         ELSE /\ {"dataframe", "chart1", "chart2"} \subseteq out
              /\ "warning" \notin out

C7_Witness ==
    /\ pc = "done"
    /\ Len(filtered_df) = 0
    /\ "warning" \in out
    /\ ui.search = <<"a", "B">>

\* positions of the filtered rows of industry k whose index is present
IndexedAt(k) ==
    { i \in 1..Len(filtered_df) :
        filtered_df[i].industry_name = <<k>> /\ Len(filtered_df[i].transformation_index) = 1 }

RECURSIVE SumAt(_)
SumAt(S) ==
    IF S = {} THEN 0
    ELSE LET i == CHOOSE x \in S : TRUE
         IN filtered_df[i].transformation_index[1] + SumAt(S \ {i})

\* the industries of the filtered rows
FilteredIndustries ==
    { filtered_df[i].industry_name[1] :
        i \in { j \in 1..Len(filtered_df) : Len(filtered_df[j].industry_name) = 1 } }

\* mean of industry a is larger than mean of industry b (both means exist)
LargerMean(a, b) ==
    /\ IndexedAt(a) # {} /\ IndexedAt(b) # {}
    /\ SumAt(IndexedAt(a)) * Cardinality(IndexedAt(b))
         > SumAt(IndexedAt(b)) * Cardinality(IndexedAt(a))

\* C8: for a non-empty filtered table the industry-average aggregation holds,
\* per included industry, the arithmetic mean of its non-missing index values
\* (sum over count of the present values), ordered by mean descending, at
\* most 20 entries, and no omitted industry has a larger mean than an
\* included one.
C8_IndustryAverage ==
    (pc \in {"export", "done"} /\ Len(filtered_df) > 0) =>
      LET n == Len(industry_avg)
          included == { industry_avg[i].industry_name : i \in 1..n }
      IN /\ n <= TopN
         /\ n = IF Cardinality(FilteredIndustries) <= TopN
                THEN Cardinality(FilteredIndustries) ELSE TopN
         /\ included \subseteq FilteredIndustries
         /\ Cardinality(included) = n
         /\ \A i \in 1..n :
              /\ industry_avg[i].num = SumAt(IndexedAt(industry_avg[i].industry_name))
              /\ industry_avg[i].den = Cardinality(IndexedAt(industry_avg[i].industry_name))
         /\ \A i \in 1..n : \A j \in (i + 1)..n :
              ~LargerMean(industry_avg[j].industry_name, industry_avg[i].industry_name)
         /\ \A k \in FilteredIndustries \ included : \A e \in included :
              /\ ~LargerMean(k, e)
              /\ IndexedAt(e) = {} => IndexedAt(k) = {}

C8_Witness ==
    /\ pc = "export"
    /\ Cardinality(FilteredIndustries) > TopN
    /\ Len(industry_avg) = TopN
    /\ \E i \in 1..Len(filtered_df) :
         /\ filtered_df[i].transformation_index = Null
         /\ \E j \in 1..Len(industry_avg) :
              /\ <<industry_avg[j].industry_name>> = filtered_df[i].industry_name
              /\ industry_avg[j].den = 1

\* A reader of CSV text: records end at a line break, fields at a comma,
\* both outside quotes; inside quotes a doubled quote is one quote.
RECURSIVE ReadCsv(_, _, _, _, _, _)
ReadCsv(text, i, recs, rec, field, inq) ==
    IF i > Len(text)
    THEN (IF rec = <<>> /\ field = <<>> THEN recs ELSE Append(recs, Append(rec, field)))
    ELSE IF inq
    THEN (IF text[i] = "\""
          THEN (IF i < Len(text) /\ text[i + 1] = "\""
                THEN ReadCsv(text, i + 2, recs, rec, Append(field, "\""), TRUE)
                ELSE ReadCsv(text, i + 1, recs, rec, field, FALSE))
          ELSE ReadCsv(text, i + 1, recs, rec, Append(field, text[i]), TRUE))
    ELSE IF text[i] = "\"" /\ field = <<>>
    THEN ReadCsv(text, i + 1, recs, rec, field, TRUE)
    ELSE IF text[i] = ","
    THEN ReadCsv(text, i + 1, recs, Append(rec, field), <<>>, FALSE)
    ELSE IF text[i] = "\n"
    THEN ReadCsv(text, i + 1, Append(recs, Append(rec, field)), <<>>, <<>>, FALSE)
    ELSE ReadCsv(text, i + 1, recs, rec, Append(field, text[i]), FALSE)

\* C9: the export is offered exactly in the passes whose filtered table is
\* not empty, and reading its text back gives the header of the five columns
\* and then one five-field record per filtered row, in the filtered order
\* (the stock code and the company name of each record are the row's).
C9_CsvRoundTrip ==
    /\ "download" \in out => Len(filtered_df) > 0
    /\ pc = "done" =>
         IF Len(filtered_df) = 0 THEN "download" \notin out /\ csv = <<>>
         ELSE /\ "download" \in out
              /\ LET recs == ReadCsv(csv, 1, <<>>, <<>>, <<>>, FALSE)
                 IN /\ Len(recs) = Len(filtered_df) + 1
                    /\ recs[1] = [c \in 1..5 |-> <<Columns[c]>>]
                    /\ \A i \in 1..Len(filtered_df) :
                         /\ Len(recs[i + 1]) = 5
                         /\ recs[i + 1][1] = Digits(filtered_df[i].stock_code)
                         /\ recs[i + 1][2] =
                              (IF filtered_df[i].company_name = Null THEN <<>>
                               ELSE filtered_df[i].company_name[1])
                         /\ (recs[i + 1][3] = <<>>) = (filtered_df[i].year = Null)
                         /\ (recs[i + 1][5] = <<>>) = (filtered_df[i].transformation_index = Null)

C9_Witness ==
    /\ pc = "done"
    /\ "download" \in out
    /\ Len(filtered_df) = 2
    /\ filtered_df[1].company_name = <<<<"B", ",", ".">>>>
    /\ filtered_df[2].company_name = Null

\* C10: whatever year and index values fail to parse, no step of the pass
\* over a non-empty loaded table raises because of the missing values.
C10_MissingNeverFaults ==
    (pc = "fault" /\ ~NoData(df)) => fault = "regex"

====
